---- MODULE Spec2Model ----
(***************************************************************************)
(* tmux-sessionizer-rs (src/src/main.rs): the path-set normalizer          *)
(* (filter_contained_paths), the recursive repository walk                 *)
(* (find_git_repos), the parallel scan of the configured roots in main,    *)
(* and the selection / session-launch sequence that ends main.             *)
(*                                                                         *)
(* A path is the string the program holds: a sequence of one-character     *)
(* strings.  Everything the code does to a path (tilde expansion, lexical  *)
(* cleaning, comparison, prefix test, join, file_name) is computed on its  *)
(* components, as std::path and path_clean compute them on Unix.           *)
(***************************************************************************)
EXTENDS Naturals, Sequences, FiniteSets, Bags

VARIABLES
    pc,            \* position in main (or in the operation a specification exercises)
    home,          \* Option<home directory>, what shellexpand::tilde looks up
    paths,         \* config.search_paths : Vec<Option<String>>
    nested,        \* config.nested.unwrap_or(false)
    fs,            \* the directory tree on disk: location -> entry
    search_paths,  \* main's search_paths : Vec<PathBuf>
    again,         \* the normalizer run on its own output
    root,          \* the root handed to one find_git_repos call
    found,         \* what that call produced
    slot,          \* per configured root: the state of its parallel task
    repos,         \* main's repos : Vec<PathBuf>
    selected,      \* Option<what fzf_select returned>
    bins,          \* which external programs can be spawned
    tmuxEnv,       \* whether $TMUX is set
    pgrep,         \* whether `pgrep tmux` finds a process besides our server
    sessions,      \* the tmux server's sessions: name -> start directory
    client,        \* Option<the session the invoking client shows>
    cmds           \* the session-manager commands issued so far

normVars == <<home, paths, search_paths, again>>
scanVars == <<nested, fs, root, found>>
mainVars == <<slot, repos>>
sessionVars == <<selected, bins, tmuxEnv, pgrep, sessions, client, cmds>>

vars == <<pc, normVars, scanVars, mainVars, sessionVars>>

-----------------------------------------------------------------------------
(* Bounds *)

\* Total size of a raw search_paths list: one per entry plus its characters.
MaxInput == 5
\* Number of entries of a raw search_paths list.
MaxEntries == 3

-----------------------------------------------------------------------------
(* Option<T> as a sequence of length 0 or 1 *)

None == <<>>
Some(v) == <<v>>
IsSome(o) == Len(o) = 1
Unwrap(o) == o[1]

-----------------------------------------------------------------------------
(* Strings and std::path on Unix *)

\* The characters raw configuration strings are drawn from.
Alphabet == {"/", ".", "a", "~"}

\* The byte value of a character: OsStr comparison is bytewise.
Byte(c) ==
    CASE c = " " -> 32
      [] c = "." -> 46
      [] c = "/" -> 47
      [] c = "_" -> 95
      [] c = "a" -> 97
      [] c = "b" -> 98
      [] c = "~" -> 126
      [] c = "\n" -> 10

RECURSIVE Segments(_)
\* s split at every "/" (empty segments kept).
Segments(s) ==
    IF \A i \in 1..Len(s) : s[i] # "/"
    THEN <<s>>
    ELSE LET k == CHOOSE i \in 1..Len(s) :
                     s[i] = "/" /\ \A j \in 1..(i - 1) : s[j] # "/"
         IN <<SubSeq(s, 1, k - 1)>> \o Segments(SubSeq(s, k + 1, Len(s)))

RootDir == <<"/">>
CurDir == <<".">>
ParentDir == <<".", ".">>

HasRoot(s) == Len(s) > 0 /\ s[1] = "/"

\* Path::components: the root, then the non-empty segments; "." is dropped
\* everywhere except as the first segment of a relative path.
Components(s) ==
    LET segs == Segments(s)
        Keep(i) == /\ segs[i] # <<>>
                   /\ segs[i] = CurDir => (i = 1 /\ ~HasRoot(s))
        idx == {i \in 1..Len(segs) : Keep(i)}
        RECURSIVE Pick(_)
        Pick(i) == IF i > Len(segs) THEN <<>>
                   ELSE (IF i \in idx THEN <<segs[i]>> ELSE <<>>) \o Pick(i + 1)
    IN (IF HasRoot(s) THEN <<RootDir>> ELSE <<>>) \o Pick(1)

RECURSIVE JoinNames(_)
JoinNames(cs) ==
    IF cs = <<>> THEN <<>>
    ELSE IF Len(cs) = 1 THEN cs[1]
    ELSE cs[1] \o <<"/">> \o JoinNames(Tail(cs))

\* PathBuf built from components (Iterator::collect / PathBuf::push).
FromComponents(cs) ==
    IF cs # <<>> /\ cs[1] = RootDir
    THEN <<"/">> \o JoinNames(Tail(cs))
    ELSE JoinNames(cs)

\* The derived order of std::path::Component: RootDir < CurDir < ParentDir < Normal.
Rank(c) == IF c = RootDir THEN 1 ELSE IF c = CurDir THEN 2
           ELSE IF c = ParentDir THEN 3 ELSE 4

RECURSIVE BytesLess(_, _)
BytesLess(x, y) ==
    IF y = <<>> THEN FALSE
    ELSE IF x = <<>> THEN TRUE
    ELSE IF Byte(x[1]) # Byte(y[1]) THEN Byte(x[1]) < Byte(y[1])
    ELSE BytesLess(Tail(x), Tail(y))

ComponentLess(c, d) ==
    IF Rank(c) # Rank(d) THEN Rank(c) < Rank(d)
    ELSE Rank(c) = 4 /\ BytesLess(c, d)

RECURSIVE ComponentsLess(_, _)
ComponentsLess(x, y) ==
    IF y = <<>> THEN FALSE
    ELSE IF x = <<>> THEN TRUE
    ELSE IF x[1] # y[1] THEN ComponentLess(x[1], y[1])
    ELSE ComponentsLess(Tail(x), Tail(y))

\* impl Ord for Path: lexicographic on components.
PathLess(p, q) == ComponentsLess(Components(p), Components(q))

\* impl PartialEq for Path: equal components.
PathEq(p, q) == Components(p) = Components(q)

IsPrefix(x, y) == Len(x) <= Len(y) /\ SubSeq(y, 1, Len(x)) = x

\* Path::starts_with: base's components are a prefix of p's.
StartsWith(p, base) == IsPrefix(Components(base), Components(p))

-----------------------------------------------------------------------------
(* filter_contained_paths *)

\* shellexpand::tilde: a leading "~" that is the whole string or is followed
\* by "/" becomes the home directory, when there is one.
Tilde(s, h) ==
    IF /\ Len(s) > 0
       /\ s[1] = "~"
       /\ (Len(s) = 1 \/ s[2] = "/")
       /\ IsSome(h)
    THEN Unwrap(h) \o SubSeq(s, 2, Len(s))
    ELSE s

RECURSIVE CleanComponents(_, _)
\* path_clean: drop ".", let ".." cancel the name before it, drop ".." at the
\* root, keep leading ".." of a relative path.
CleanComponents(cs, out) ==
    IF cs = <<>> THEN out
    ELSE LET c == cs[1]
             last == IF out = <<>> THEN <<>> ELSE out[Len(out)]
             next == IF c = CurDir THEN out
                     ELSE IF c = ParentDir
                          THEN IF out = <<>> THEN out \o <<c>>
                               ELSE IF last = RootDir THEN out
                               ELSE IF Rank(last) = 4 THEN SubSeq(out, 1, Len(out) - 1)
                               ELSE out \o <<c>>
                     ELSE out \o <<c>>
         IN CleanComponents(Tail(cs), next)

\* PathClean::clean: the cleaned path, "." when nothing is left.
Clean(s) ==
    LET out == CleanComponents(Components(s), <<>>)
    IN IF out = <<>> THEN <<".">> ELSE FromComponents(out)

RECURSIVE Insert(_, _)
Insert(p, sorted) ==
    IF sorted = <<>> THEN <<p>>
    ELSE IF PathLess(sorted[1], p) THEN <<sorted[1]>> \o Insert(p, Tail(sorted))
    ELSE <<p>> \o sorted

\* Mutant of SortPaths: the sort is left out.
SortPathsOmitted(ps) == ps

RECURSIVE SortPaths(_)
\* Vec::sort under Path's order.
SortPaths(ps) == IF ps = <<>> THEN <<>> ELSE Insert(ps[1], SortPaths(Tail(ps)))

RECURSIVE Dedup(_)
\* Vec::dedup: consecutive equal elements collapse to the first.
Dedup(ps) ==
    IF Len(ps) <= 1 THEN ps
    ELSE IF PathEq(ps[1], ps[2]) THEN Dedup(<<ps[1]>> \o SubSeq(ps, 3, Len(ps)))
    ELSE <<ps[1]>> \o Dedup(Tail(ps))

RECURSIVE FilterSome(_)
\* filter_map(|item| item.map(PathBuf::from)): absent entries are dropped.
FilterSome(raw) ==
    IF raw = <<>> THEN <<>>
    ELSE (IF IsSome(raw[1]) THEN <<Unwrap(raw[1])>> ELSE <<>>) \o FilterSome(Tail(raw))

\* The first half of filter_contained_paths: expand, clean, sort, dedup.
ExpandedCleaned(raw, h) ==
    LET present == FilterSome(raw)
        cleaned == [i \in 1..Len(present) |-> Clean(Tilde(present[i], h))]
    IN Dedup(SortPaths(cleaned))

\* Mutant of Contained: the prefix test compares the path with itself only.
ContainedNever(path, all) ==
    \E i \in 1..Len(all) : ~PathEq(all[i], path) /\ StartsWith(path, all[i]) /\ all[i] = path

\* The loop's test: some other path of the list is a prefix of path.
Contained(path, all) ==
    \E i \in 1..Len(all) : ~PathEq(all[i], path) /\ StartsWith(path, all[i])

FilterContainedPaths(raw, h) ==
    LET all == ExpandedCleaned(raw, h)
        Kept(path) == ~Contained(path, all)
    IN SelectSeq(all, Kept)

\* A Vec<PathBuf> handed back as configuration: each path's string, present.
ToRaw(ps) == [i \in 1..Len(ps) |-> Some(ps[i])]

-----------------------------------------------------------------------------
(* Inputs of the normalizer *)

Strings(n) == UNION {[1..k -> Alphabet] : k \in 0..n}

RECURSIVE RawLists(_, _)
\* Every raw list of at most n entries and total size at most w.
RawLists(w, n) ==
    {<<>>} \cup
    (IF w = 0 \/ n = 0 THEN {}
     ELSE LET entries == {None} \cup {Some(s) : s \in Strings(w - 1)}
              Size(e) == IF IsSome(e) THEN 1 + Len(Unwrap(e)) ELSE 1
          IN UNION {{<<e>> \o l : l \in RawLists(w - Size(e), n - 1)} : e \in entries})

HomeDir == <<"/", "a">>
Homes == {None, Some(HomeDir)}

(* Parts of the state a specification leaves alone *)

NoScan ==
    /\ nested = FALSE
    /\ fs = <<>>
    /\ root = <<>>
    /\ found = <<>>

NoMain ==
    /\ slot = <<>>
    /\ repos = <<>>

NoSession ==
    /\ selected = None
    /\ bins = <<>>
    /\ tmuxEnv = FALSE
    /\ pgrep = FALSE
    /\ sessions = <<>>
    /\ client = None
    /\ cmds = <<>>

-----------------------------------------------------------------------------
(* SpecNorm: the normalizer applied to a raw list, then to its own output *)

InitNorm ==
    /\ pc = "config"
    /\ home \in Homes
    /\ paths \in RawLists(MaxInput, MaxEntries)
    /\ search_paths = <<>>
    /\ again = <<>>
    /\ NoScan /\ NoMain /\ NoSession

Normalize ==
    /\ pc = "config"
    /\ search_paths' = FilterContainedPaths(paths, home)
    /\ pc' = "normalized"
    /\ UNCHANGED <<home, paths, again, scanVars, mainVars, sessionVars>>

Renormalize ==
    /\ pc = "normalized"
    /\ again' = FilterContainedPaths(ToRaw(search_paths), home)
    /\ pc' = "renormalized"
    /\ UNCHANGED <<home, paths, search_paths, scanVars, mainVars, sessionVars>>

NextNorm == Normalize \/ Renormalize

SpecNorm == InitNorm /\ [][NextNorm]_vars

-----------------------------------------------------------------------------
(* Claims about the normalizer *)

\* Q's component sequence is a prefix of P's, for two distinct paths.
Overlap(ps) ==
    \E i, j \in 1..Len(ps) :
        /\ ps[i] # ps[j]
        /\ IsPrefix(Components(ps[j]), Components(ps[i]))

\* C1: whatever the raw list (absent entries, duplicates, "." and ".."
\* segments), the output of filter_contained_paths never holds two distinct
\* paths of which one's components are a prefix of the other's.
C1_NoContainedPair ==
    /\ pc # "config" => ~Overlap(search_paths)
    /\ pc = "renormalized" => ~Overlap(again)

\* C1's case: the cleaned list held a path inside another and an absent
\* entry, and the filter has produced its output.
C1_Witness ==
    /\ pc = "normalized"
    /\ \E i \in 1..Len(paths) : paths[i] = None
    /\ LET all == ExpandedCleaned(paths, home)
       IN \E i \in 1..Len(all) : Contained(all[i], all)
    /\ search_paths # <<>>

NoDuplicates(ps) == \A i, j \in 1..Len(ps) : i # j => ps[i] # ps[j]

Reorderings(n) == {f \in [1..n -> 1..n] : \A i, j \in 1..n : f[i] = f[j] => i = j}

\* The output is the same for every reordering of the raw list.
OrderIndependent ==
    \A f \in Reorderings(Len(paths)) :
        FilterContainedPaths([i \in 1..Len(paths) |-> paths[f[i]]], home) = search_paths

\* A path of the output that tilde expansion rewrites when it is read again.
Reexpanded(ps) == \E i \in 1..Len(ps) : Tilde(ps[i], home) # ps[i]

-----------------------------------------------------------------------------
(* The directory tree the walk reads *)

\* A location is the sequence of names from "/" down to the entry.  fs maps
\* the locations that exist to what is there; "/" itself is always a readable
\* directory.  git is the presence of a ".git" entry in a directory; perm is
\* what the process may do with a directory: "rx" list and search, "x" search
\* only (no read permission), "none" neither.
FsNames == {<<"a">>, <<"b">>}

FileEntry == [kind |-> "file", git |-> FALSE, perm |-> "rx"]
DirEntries == {[kind |-> "dir", git |-> g, perm |-> p] :
                   g \in BOOLEAN, p \in {"rx", "x", "none"}}
SlashEntry == [kind |-> "dir", git |-> FALSE, perm |-> "rx"]
NoEntry == [kind |-> "none", git |-> FALSE, perm |-> "none"]

\* The process's working directory.
Cwd == <<>>

Parent(loc) == SubSeq(loc, 1, Len(loc) - 1)

EntryAt(tree, loc) ==
    IF loc = <<>> THEN SlashEntry
    ELSE IF loc \in DOMAIN tree THEN tree[loc]
    ELSE NoEntry

Searchable(e) == e.kind = "dir" /\ e.perm \in {"rx", "x"}

RECURSIVE Walk(_, _, _)
\* Path resolution (stat): every directory on the way must be searchable.
Walk(tree, cs, loc) ==
    IF cs = <<>> THEN Some(loc)
    ELSE IF cs[1] = RootDir THEN Walk(tree, Tail(cs), <<>>)
    ELSE IF ~Searchable(EntryAt(tree, loc)) THEN None
    ELSE IF cs[1] = CurDir THEN Walk(tree, Tail(cs), loc)
    ELSE IF cs[1] = ParentDir
         THEN Walk(tree, Tail(cs), IF loc = <<>> THEN loc ELSE Parent(loc))
    ELSE IF EntryAt(tree, loc \o <<cs[1]>>).kind = "none" THEN None
    ELSE Walk(tree, Tail(cs), loc \o <<cs[1]>>)

\* Where the path leads, when it leads anywhere.
Locate(tree, p) ==
    IF p = <<>> THEN None ELSE Walk(tree, Components(p), Cwd)

\* Path::exists
Exists(tree, p) == IsSome(Locate(tree, p))

\* Path::is_dir
IsDir(tree, p) ==
    /\ Exists(tree, p)
    /\ EntryAt(tree, Unwrap(Locate(tree, p))).kind = "dir"

\* path.join(".git").exists(), for a path that is a directory
HasGitMarker(tree, p) ==
    /\ IsDir(tree, p)
    /\ LET e == EntryAt(tree, Unwrap(Locate(tree, p)))
       IN Searchable(e) /\ e.git

\* fs::read_dir(p) is Ok.
CanReadDir(tree, p) ==
    /\ IsDir(tree, p)
    /\ EntryAt(tree, Unwrap(Locate(tree, p))).perm = "rx"

RECURSIVE SortNames(_)
SortNames(S) ==
    IF S = {} THEN <<>>
    ELSE LET m == CHOOSE x \in S : \A y \in S : y = x \/ BytesLess(x, y)
         IN <<m>> \o SortNames(S \ {m})

\* The names read_dir yields.  The order the operating system lists them in
\* is not specified; every result is used as a collection, and the names are
\* taken here in byte order.
ReadDir(tree, p) ==
    LET loc == Unwrap(Locate(tree, p))
    IN SortNames({n \in FsNames : loc \o <<n>> \in DOMAIN tree})

\* PathBuf::join with a relative name.
Join(p, name) ==
    IF p = <<>> THEN name
    ELSE IF p[Len(p)] = "/" THEN p \o name
    ELSE p \o <<"/">> \o name

-----------------------------------------------------------------------------
(* find_git_repos *)

\* What a call produces: the vector it returns, or a panic that unwinds
\* through every caller.
Returned(v) == [panic |-> FALSE, repos |-> v]
Panicked == [panic |-> TRUE, repos |-> <<>>]

RECURSIVE FindGitRepos(_, _, _)
RECURSIVE ForEntries(_, _, _, _, _)

\* Mutant of ForEntries: a repository is descended into whatever nested says.
ForEntriesDescends(tree, dir, names, nest, git_repos) ==
    IF names = <<>> THEN Returned(git_repos)
    ELSE LET path == Join(dir, names[1])
             rest == Tail(names)
         IN IF ~IsDir(tree, path)
            THEN ForEntries(tree, dir, rest, nest, git_repos)
            ELSE LET pushed == IF HasGitMarker(tree, path)
                               THEN git_repos \o <<path>>
                               ELSE git_repos
                     sub == FindGitRepos(tree, path, nest)
                 IN IF sub.panic THEN Panicked
                    ELSE ForEntries(tree, dir, rest, nest, pushed \o sub.repos)

\* Mutant of ForEntries: a repository is never descended into.
ForEntriesShallow(tree, dir, names, nest, git_repos) ==
    IF names = <<>> THEN Returned(git_repos)
    ELSE LET path == Join(dir, names[1])
             rest == Tail(names)
         IN IF ~IsDir(tree, path)
            THEN ForEntries(tree, dir, rest, nest, git_repos)
            ELSE IF HasGitMarker(tree, path)
            THEN ForEntries(tree, dir, rest, nest, git_repos \o <<path>>)
            ELSE LET sub == FindGitRepos(tree, path, nest)
                 IN IF sub.panic THEN Panicked
                    ELSE ForEntries(tree, dir, rest, nest, git_repos \o sub.repos)

\* for entry in entries { ... }: git_repos is the vector built so far.
ForEntries(tree, dir, names, nest, git_repos) ==
    IF names = <<>> THEN Returned(git_repos)
    ELSE LET path == Join(dir, names[1])
             rest == Tail(names)
         IN IF ~IsDir(tree, path)
            THEN ForEntries(tree, dir, rest, nest, git_repos)
            ELSE IF HasGitMarker(tree, path) /\ ~nest
            THEN ForEntries(tree, dir, rest, nest, git_repos \o <<path>>)
            ELSE LET pushed == IF HasGitMarker(tree, path)
                               THEN git_repos \o <<path>>
                               ELSE git_repos
                     sub == FindGitRepos(tree, path, nest)
                 IN IF sub.panic THEN Panicked
                    ELSE ForEntries(tree, dir, rest, nest, pushed \o sub.repos)

\* Mutant of FindGitRepos: the is_dir guard on the root is left out.
FindGitReposUnguarded(tree, dir, nest) ==
    IF ~CanReadDir(tree, dir) THEN Panicked
    ELSE ForEntries(tree, dir, ReadDir(tree, dir), nest, <<>>)

FindGitRepos(tree, dir, nest) ==
    IF ~IsDir(tree, dir) THEN Returned(<<>>)
    ELSE IF ~CanReadDir(tree, dir) THEN Panicked
    ELSE ForEntries(tree, dir, ReadDir(tree, dir), nest, <<>>)

-----------------------------------------------------------------------------
(* Directory trees *)

\* A tree of n entries is at most n levels deep.
Universe(n) == UNION {[1..k -> FsNames] : k \in 1..n}

IsTree(tree) ==
    \A loc \in DOMAIN tree :
        Len(loc) > 1 => /\ Parent(loc) \in DOMAIN tree
                        /\ tree[Parent(loc)].kind = "dir"

RECURSIVE Shapes(_)
\* Every set of at most n locations closed under Parent.
Shapes(n) ==
    IF n = 0 THEN {{}}
    ELSE LET smaller == Shapes(n - 1)
             Grown(S) == {S \cup {loc} :
                             loc \in {l \in Universe(n) : Len(l) = 1 \/ Parent(l) \in S}}
         IN smaller \cup UNION {Grown(S) : S \in smaller}

\* Every tree of at most n entries below "/".
Trees(n) ==
    UNION {{t \in [S -> {FileEntry} \cup DirEntries] : IsTree(t)} : S \in Shapes(n)}

-----------------------------------------------------------------------------
(* SpecScan: one find_git_repos call on a root of a directory tree *)

\* Entries of the trees one find_git_repos call is run on.
ScanNodes == 2

ScanRoots == {<<"/">>, <<".">>, <<"/", "a">>, <<"b">>}

InitScan ==
    /\ pc = "scan"
    /\ home = None
    /\ paths = <<>>
    /\ search_paths = <<>>
    /\ again = <<>>
    /\ nested \in BOOLEAN
    /\ fs \in Trees(ScanNodes)
    /\ root \in ScanRoots
    /\ found = Returned(<<>>)
    /\ NoMain /\ NoSession

\* The call returns its vector.
ScanReturns ==
    /\ pc = "scan"
    /\ LET r == FindGitRepos(fs, root, nested)
       IN ~r.panic /\ found' = r
    /\ pc' = "returned"
    /\ UNCHANGED <<normVars, nested, fs, root, mainVars, sessionVars>>

\* The call panics at read_dir(..).unwrap().
ScanPanics ==
    /\ pc = "scan"
    /\ FindGitRepos(fs, root, nested).panic
    /\ found' = Panicked
    /\ pc' = "panicked"
    /\ UNCHANGED <<normVars, nested, fs, root, mainVars, sessionVars>>

NextScan == ScanReturns \/ ScanPanics

SpecScan == InitScan /\ [][NextScan]_vars

-----------------------------------------------------------------------------
(* Claims about find_git_repos *)

\* Where the root is, when it is a directory.
RootLoc == Unwrap(Locate(fs, root))

\* A directory that contains a ".git" entry.
IsRepoAt(loc) == EntryAt(fs, loc).kind = "dir" /\ EntryAt(fs, loc).git

\* The entries strictly below a location.
Below(top) == {loc \in DOMAIN fs : Len(loc) > Len(top) /\ IsPrefix(top, loc)}

\* The locations strictly between top and loc.
Between(top, loc) == {SubSeq(loc, 1, k) : k \in (Len(top) + 1)..(Len(loc) - 1)}

\* Every repository strictly below the root.
AllRepos ==
    IF ~IsDir(fs, root) THEN {}
    ELSE {loc \in Below(RootLoc) : IsRepoAt(loc)}

\* Those with no repository between the root and themselves.
OutermostRepos ==
    {loc \in AllRepos : \A anc \in Between(RootLoc, loc) : ~IsRepoAt(anc)}

\* The repositories the walk reaches through readable directories only.
ReadableRepos ==
    {loc \in (IF nested THEN AllRepos ELSE OutermostRepos) :
        \A anc \in {RootLoc} \cup Between(RootLoc, loc) : EntryAt(fs, anc).perm = "rx"}

LocsOf(ps) == {Locate(fs, ps[i]) : i \in 1..Len(ps)}
SomeLocs(S) == {Some(loc) : loc \in S}

RECURSIVE JoinAll(_, _)
JoinAll(p, names) ==
    IF names = <<>> THEN p ELSE JoinAll(Join(p, names[1]), Tail(names))

\* Each returned path is the root joined with the names down to the entry.
SpelledFromRoot(ps) ==
    \A i \in 1..Len(ps) :
        /\ IsSome(Locate(fs, ps[i]))
        /\ LET loc == Unwrap(Locate(fs, ps[i]))
           IN /\ IsPrefix(RootLoc, loc)
              /\ ps[i] = JoinAll(root, SubSeq(loc, Len(RootLoc) + 1, Len(loc)))

\* C3 as stated: an unreadable directory met during the walk is skipped
\* silently; the call still returns, with the repositories of every readable
\* subdirectory.
C3_AsStated ==
    pc # "scan" =>
        /\ pc = "returned"
        /\ SomeLocs(ReadableRepos) \subseteq LocsOf(found.repos)

\* Some directory at or below the root cannot be read.
UnreadableBelowRoot ==
    \E loc \in {RootLoc} \cup Below(RootLoc) :
        EntryAt(fs, loc).kind = "dir" /\ EntryAt(fs, loc).perm # "rx"

\* An inner repository: one below the root with a repository between the
\* root and itself.
InnerRepos == AllRepos \ OutermostRepos

\* C4: what a scan with nested = false returns is exactly the outermost
\* repositories strictly below the root: every directory holding a ".git"
\* entry below the root, reached through directories that are not repositories
\* themselves, each once and spelled from the root; nothing inside a repository
\* is returned.  The call fails to return only where a directory at or below
\* the root cannot be read.
C4_FlatWalk ==
    ~nested =>
        /\ pc = "returned" =>
               /\ LocsOf(found.repos) = SomeLocs(OutermostRepos)
               /\ NoDuplicates(found.repos)
               /\ SpelledFromRoot(found.repos)
        /\ pc = "panicked" => UnreadableBelowRoot

\* C4's case: a flat scan has returned from a tree where a repository lies
\* inside another one, or a repository lies below a plain directory.
C4_Witness ==
    /\ pc = "returned"
    /\ ~nested
    /\ found.repos # <<>>
    /\ \/ InnerRepos # {}
       \/ \E loc \in OutermostRepos : Between(RootLoc, loc) # {}

\* C5: what a scan with nested = true returns is every repository strictly
\* below the root, those inside other repositories included, each once; on
\* the same tree the scan with nested = false returns too, and returns only
\* the outermost of them.
C5_NestedWalk ==
    (pc = "returned" /\ nested) =>
        /\ LocsOf(found.repos) = SomeLocs(AllRepos)
        /\ NoDuplicates(found.repos)
        /\ LET flat == FindGitRepos(fs, root, FALSE)
           IN /\ ~flat.panic
              /\ LocsOf(flat.repos) = SomeLocs(OutermostRepos)
              /\ LocsOf(flat.repos) \subseteq LocsOf(found.repos)

\* C5's case: a nested scan has returned a repository and one inside it.
C5_Witness ==
    /\ pc = "returned"
    /\ nested
    /\ InnerRepos # {}
    /\ SomeLocs(InnerRepos) \subseteq LocsOf(found.repos)
    /\ Len(found.repos) >= 2

\* A tree whose directories are all readable is always walked to the end.
ReadableTreeReturns ==
    (pc # "scan" /\ \A loc \in DOMAIN fs : fs[loc].perm = "rx") => pc = "returned"

-----------------------------------------------------------------------------
(* SpecMain: main from the configuration to the collected repos *)

\* Configured roots.
MaxRoots == 2
\* Entries of the tree main scans.
MainNodes == 1

\* What a search_paths entry of the configuration may be: the working
\* directory by its relative and by its absolute name, and a name below it.
MainEntries == {Some(<<".">>), Some(<<"/">>), Some(<<"a">>)}

Configs(n) == UNION {[1..k -> MainEntries] : k \in 0..n}

\* The task of one root: not run yet, or what the closure produced.
Pending == [st |-> "pending", repos |-> <<>>]
Dropped == [st |-> "none", repos |-> <<>>]
Scanned(v) == [st |-> "some", repos |-> v]
Unwound == [st |-> "panic", repos |-> <<>>]

\* The filter_map closure of main on one root.
ScanClosure(tree, dir, nest) ==
    IF Exists(tree, dir)
    THEN LET r == FindGitRepos(tree, dir, nest)
         IN IF r.panic THEN Unwound ELSE Scanned(r.repos)
    ELSE Dropped

RECURSIVE FlattenLast(_)
\* Mutant of Flatten: every task overwrites the shared vector, the last one wins.
FlattenLast(sl) ==
    IF sl = <<>> THEN <<>>
    ELSE IF Len(sl) = 1 THEN sl[1].repos
    ELSE FlattenLast(Tail(sl))

RECURSIVE Flatten(_)
\* .flatten().collect(): the vectors of the roots that produced one, in the
\* order of the roots.
Flatten(sl) ==
    IF sl = <<>> THEN <<>> ELSE sl[1].repos \o Flatten(Tail(sl))

InitMain ==
    /\ pc = "start"
    /\ home = Some(HomeDir)
    /\ paths \in Configs(MaxRoots)
    /\ search_paths = <<>>
    /\ again = <<>>
    /\ nested \in BOOLEAN
    /\ fs \in Trees(MainNodes)
    /\ root = <<>>
    /\ found = <<>>
    /\ NoMain /\ NoSession

\* let search_paths = filter_contained_paths(config.search_paths);
MainNormalize ==
    /\ pc = "start"
    /\ search_paths' = FilterContainedPaths(paths, home)
    /\ slot' = [i \in 1..Len(search_paths') |-> Pending]
    /\ pc' = "scanning"
    /\ UNCHANGED <<home, paths, again, scanVars, repos, sessionVars>>

\* One root's closure runs on some worker, in any order with the others.
ScanRoot(i) ==
    /\ pc = "scanning"
    /\ slot[i] = Pending
    /\ slot' = [slot EXCEPT ![i] = ScanClosure(fs, search_paths[i], nested)]
    /\ UNCHANGED <<pc, normVars, scanVars, repos, sessionVars>>

\* Every closure has returned: collect() builds repos.
Collect ==
    /\ pc = "scanning"
    /\ \A i \in 1..Len(slot) : slot[i].st \in {"none", "some"}
    /\ repos' = Flatten(slot)
    /\ pc' = "fzf"
    /\ UNCHANGED <<normVars, scanVars, slot, sessionVars>>

\* A closure has panicked: the panic unwinds out of main, whether or not the
\* other roots' closures have run.
Unwind ==
    /\ pc = "scanning"
    /\ \E i \in 1..Len(slot) : slot[i].st = "panic"
    /\ pc' = "panicked"
    /\ UNCHANGED <<normVars, scanVars, mainVars, sessionVars>>

NextMain ==
    \/ MainNormalize
    \/ \E i \in 1..Len(slot) : ScanRoot(i)
    \/ Collect
    \/ Unwind

SpecMain == InitMain /\ [][NextMain]_vars

-----------------------------------------------------------------------------
(* Claims about the scan of the configured roots *)

\* A configured root that does not exist or is not a directory.
BadRoot(i) == ~IsDir(fs, search_paths[i])

RECURSIVE ScansOfDirs(_)
\* The walks of the roots that are directories, one after the other, from
\* root i on.
ScansOfDirs(i) ==
    IF i > Len(search_paths) THEN <<>>
    ELSE (IF BadRoot(i) THEN <<>> ELSE FindGitRepos(fs, search_paths[i], nested).repos)
         \o ScansOfDirs(i + 1)

\* C7: a configured root that does not exist or is not a directory
\* contributes nothing and raises no error: its task never panics, main
\* aborts only through the walk of a root that is a directory, and the final
\* list is exactly the walks of the other roots.
C7_BadRootIsHarmless ==
    pc \in {"scanning", "fzf", "panicked"} =>
        /\ \A i \in 1..Len(slot) :
               BadRoot(i) => slot[i].st # "panic" /\ slot[i].repos = <<>>
        /\ pc = "panicked" =>
               \E i \in 1..Len(slot) : ~BadRoot(i) /\ slot[i].st = "panic"
        /\ pc = "fzf" => repos = ScansOfDirs(1)

\* C7's case: a root that does not exist or is not a directory was
\* configured beside a root whose repositories are in the final list.
C7_Witness ==
    /\ pc = "fzf"
    /\ \E i, j \in 1..Len(slot) :
           /\ BadRoot(i)
           /\ ~BadRoot(j)
           /\ slot[j].repos # <<>>
    /\ repos # <<>>

\* C9 as stated: the combined list holds no repository twice, neither the
\* same path nor the same directory reached through two roots.
C9_AsStated ==
    pc = "fzf" =>
        \A i, j \in 1..Len(repos) :
            i # j => /\ repos[i] # repos[j]
                     /\ Locate(fs, repos[i]) # Locate(fs, repos[j])

\* What does hold of the combined list: no path string occurs twice.
PathsListedOnce == pc = "fzf" => NoDuplicates(repos)

SeqToBag(q) ==
    [e \in {q[i] : i \in 1..Len(q)} |-> Cardinality({i \in 1..Len(q) : q[i] = e})]

RECURSIVE ScanBag(_)
\* The entries of every existing root's scan result, from root i on.
ScanBag(i) ==
    IF i > Len(search_paths) THEN EmptyBag
    ELSE (IF Exists(fs, search_paths[i])
          THEN SeqToBag(FindGitRepos(fs, search_paths[i], nested).repos)
          ELSE EmptyBag)
         (+) ScanBag(i + 1)

\* C10: whatever order the per-root scans ran in, the collected list holds
\* exactly the entries of each existing root's scan result, as a multiset.
C10_CollectIsExact == pc = "fzf" => SeqToBag(repos) = ScanBag(1)

\* C10's case: two roots were scanned, each found a repository, and the list
\* has been collected.
C10_Witness ==
    /\ pc = "fzf"
    /\ \E i, j \in 1..Len(slot) :
           i # j /\ slot[i].repos # <<>> /\ slot[j].repos # <<>>
    /\ Len(repos) >= 2

-----------------------------------------------------------------------------
(* The selection and the session launch *)

\* Path::file_name: the last component when it is a name.
FileName(p) ==
    LET cs == Components(p)
    IN IF cs # <<>> /\ Rank(cs[Len(cs)]) = 4 THEN Some(cs[Len(cs)]) ELSE None

\* str::replace('.', "_")
ReplaceDots(name) == [i \in 1..Len(name) |-> IF name[i] = "." THEN "_" ELSE name[i]]

\* selected_name, for a selection that has a file name.
SessionName(sel) == ReplaceDots(Unwrap(FileName(sel)))

Whitespace == {" ", "\n"}

RECURSIVE TrimStart(_)
TrimStart(t) ==
    IF t # <<>> /\ t[1] \in Whitespace THEN TrimStart(Tail(t)) ELSE t

RECURSIVE TrimEnd(_)
TrimEnd(t) ==
    IF t # <<>> /\ t[Len(t)] \in Whitespace
    THEN TrimEnd(SubSeq(t, 1, Len(t) - 1))
    ELSE t

\* str::trim
Trim(t) == TrimEnd(TrimStart(t))

\* What fzf may write to its standard output: one of the lines it was given,
\* or nothing when the user aborts.
FzfOutputs(choices) ==
    {<<>>} \cup {choices[i] \o <<"\n">> : i \in 1..Len(choices)}

\* Mutant of AfterSelect: the early return on an empty selection is left out.
AfterSelectUnchecked(sel) == "is_tmux_running"

\* if selected.is_empty() { return Ok(()); }
AfterSelect(sel) == IF sel = <<>> THEN "exit_ok" ELSE "is_tmux_running"

\* The server's sessions with one more, started in dir.
WithSession(ss, name, dir) ==
    [n \in DOMAIN ss \cup {name} |-> IF n = name THEN dir ELSE ss[n]]

-----------------------------------------------------------------------------
(* SpecSession: main from the collected repos to its end *)

\* Repositories handed to the selector.
MaxRepos == 2
\* Sessions the tmux server holds when the program starts.
MaxSessions == 1

\* Repositories the scan may have found: two with the same final component,
\* one whose final component holds a dot.
SessionDirs ==
    { <<"/", "a", "/", "a">>, <<"/", "b", "/", "a">>, <<"/", "a", "/", "a", ".", "b">> }

\* The names sessions may already have.
SessionNames == { <<"a">>, <<"a", "_", "b">> }

ServerStates(n) ==
    UNION {[D -> SessionDirs] : D \in {E \in SUBSET SessionNames : Cardinality(E) <= n}}

InitSession ==
    /\ pc = "fzf"
    /\ home = None
    /\ paths = <<>>
    /\ search_paths = <<>>
    /\ again = <<>>
    /\ NoScan
    /\ slot = <<>>
    /\ repos \in UNION {[1..k -> SessionDirs] : k \in 0..MaxRepos}
    /\ selected = None
    /\ bins \in [fzf : BOOLEAN, tmux : BOOLEAN]
    /\ sessions \in ServerStates(MaxSessions)
    /\ (~bins.tmux) => DOMAIN sessions = {}
    /\ tmuxEnv \in BOOLEAN
    /\ tmuxEnv => DOMAIN sessions # {}
    /\ client \in {None} \cup {Some(n) : n \in DOMAIN sessions}
    /\ IsSome(client) <=> tmuxEnv
    /\ pgrep \in BOOLEAN
    /\ cmds = <<>>

\* fzf_select returns what the user picked, trimmed; main returns on "".
FzfSelect ==
    /\ pc = "fzf"
    /\ bins.fzf
    /\ \E out \in FzfOutputs(repos) :
           /\ selected' = Some(Trim(out))
           /\ pc' = AfterSelect(Trim(out))
    /\ UNCHANGED <<normVars, scanVars, mainVars, bins, tmuxEnv, pgrep,
                   sessions, client, cmds>>

\* Command::new("fzf").spawn()? fails: main returns the error.
FzfSpawnFails ==
    /\ pc = "fzf"
    /\ ~bins.fzf
    /\ pc' = "error"
    /\ UNCHANGED <<normVars, scanVars, mainVars, sessionVars>>

\* selected_name is derived (file_name().unwrap()), then is_tmux_running():
\* $TMUX is set, or pgrep finds a process named tmux.
IsTmuxRunning ==
    /\ pc = "is_tmux_running"
    /\ IF FileName(Unwrap(selected)) = None
       THEN pc' = "panicked" /\ cmds' = cmds
       ELSE /\ cmds' = Append(cmds, "is-running")
            /\ pc' = IF tmuxEnv \/ pgrep \/ DOMAIN sessions # {}
                     THEN "has_session"
                     ELSE "start_session"
    /\ UNCHANGED <<normVars, scanVars, mainVars, selected, bins, tmuxEnv,
                   pgrep, sessions, client>>

\* tmux new-session -s name -c path, in the foreground: when it returns the
\* user has detached (the session is still there) or ended it.
StartTmuxSession ==
    /\ pc = "start_session"
    /\ bins.tmux
    /\ cmds' = Append(cmds, "new-session")
    /\ LET name == SessionName(Unwrap(selected))
       IN \/ sessions' = (IF name \in DOMAIN sessions THEN sessions
                          ELSE WithSession(sessions, name, Unwrap(selected)))
          \/ sessions' = sessions
    /\ pc' = "has_session"
    /\ UNCHANGED <<normVars, scanVars, mainVars, selected, bins, tmuxEnv,
                   pgrep, client>>

\* Command::new("tmux") cannot be spawned: the ? returns the error.
TmuxSpawnFails ==
    /\ pc \in {"start_session", "has_session"}
    /\ ~bins.tmux
    /\ pc' = "error"
    /\ UNCHANGED <<normVars, scanVars, mainVars, sessionVars>>

\* tmux has-session -t name
HasSession ==
    /\ pc = "has_session"
    /\ bins.tmux
    /\ cmds' = Append(cmds, "has-session")
    /\ pc' = IF SessionName(Unwrap(selected)) \in DOMAIN sessions
             THEN "switch"
             ELSE "new_detached"
    /\ UNCHANGED <<normVars, scanVars, mainVars, selected, bins, tmuxEnv,
                   pgrep, sessions, client>>

\* tmux new-session -ds name -c path
NewDetachedSession ==
    /\ pc = "new_detached"
    /\ cmds' = Append(cmds, "new-session -d")
    /\ LET name == SessionName(Unwrap(selected))
       IN sessions' = (IF name \in DOMAIN sessions THEN sessions
                       ELSE WithSession(sessions, name, Unwrap(selected)))
    /\ pc' = "switch"
    /\ UNCHANGED <<normVars, scanVars, mainVars, selected, bins, tmuxEnv,
                   pgrep, client>>

\* tmux switch-client -t name: moves the client, when there is one.
SwitchClient ==
    /\ pc = "switch"
    /\ cmds' = Append(cmds, "switch-client")
    /\ LET name == SessionName(Unwrap(selected))
       IN client' = (IF IsSome(client) /\ name \in DOMAIN sessions
                     THEN Some(name)
                     ELSE client)
    /\ pc' = "done"
    /\ UNCHANGED <<normVars, scanVars, mainVars, selected, bins, tmuxEnv,
                   pgrep, sessions>>

NextSession ==
    \/ FzfSelect
    \/ FzfSpawnFails
    \/ IsTmuxRunning
    \/ StartTmuxSession
    \/ TmuxSpawnFails
    \/ HasSession
    \/ NewDetachedSession
    \/ SwitchClient

SpecSession == InitSession /\ [][NextSession]_vars

-----------------------------------------------------------------------------
(* Claims about the selection and the session launch *)

Issued(c) == \E i \in 1..Len(cmds) : cmds[i] = c

\* C6 as stated: whenever switch-client is issued, a session with the derived
\* identifier exists and is rooted at the selected directory.
C6_AsStated ==
    Issued("switch-client") =>
        LET name == SessionName(Unwrap(selected))
        IN /\ name \in DOMAIN sessions
           /\ sessions[name] = Unwrap(selected)

\* What does hold of the launch: when switch-client is issued a session with
\* the derived identifier exists, and a session is created only after
\* has-session found none.
SwitchTargetExists ==
    /\ Issued("switch-client") => SessionName(Unwrap(selected)) \in DOMAIN sessions
    /\ Issued("new-session -d") => Issued("has-session")

\* C8: when the selector returns an empty selection, main returns Ok and no
\* session-manager command (is-running check, new-session, has-session,
\* switch-client) is issued in that run.
C8_EmptySelectionExits ==
    (IsSome(selected) /\ Unwrap(selected) = <<>>) =>
        /\ pc = "exit_ok"
        /\ cmds = <<>>

\* C8's case: the selector was given repositories, a tmux server with a
\* session was there to talk to, and the user aborted.
C8_Witness ==
    /\ pc = "exit_ok"
    /\ selected = Some(<<>>)
    /\ repos # <<>>
    /\ DOMAIN sessions # {}

====
